---- MODULE Spec2Model ----
(***************************************************************************)
(* Model of bbotscript.py: the periodic multi-task scheduler (main), its   *)
(* launch_scan / on_done closures and the ThreadPoolExecutor it drives.    *)
(*                                                                         *)
(* Time is counted in tenths of a second, so that the loop's 0.2 s floor   *)
(* and 0.5 s idle delay are the integers 2 and 5 and the periods 900 s and *)
(* 1800 s are 9000 and 18000.  math.inf is the value Inf, compared the way *)
(* floats compare with infinity (Leq).                                     *)
(***************************************************************************)
EXTENDS Integers, Sequences, FiniteSets, TLC

VARIABLES
    schedule,     \* list of task dicts: domain, name, period, next, running
    max_workers,  \* size of the ThreadPoolExecutor
    stop_event,   \* threading.Event: TRUE once set
    clock,        \* what time.time() returns
    advances,     \* how many times the clock has moved (bounds the run)
    pc,           \* position of the control thread in main()
    now,          \* main's local `now` (0 while it holds nothing the loop will read)
    due,          \* the rest of sorted(due) still to be launched in this tick
    cur,          \* the task launch_scan is working on (0: none)
    idx,          \* position of the next_times comprehension in schedule
    next_times,   \* main's local `next_times`, as built so far
    sleep_for,    \* main's local `sleep_for`
    wake_at,      \* the time at which time.sleep(sleep_for) may return
    work_queue,   \* the executor's queue of submitted, not yet started items
    future,       \* per task: state of its latest future
    outcome,      \* per task: how run_scan ended for its latest submission
    callback,     \* per task: on_done is in the future's callback list
    handler,      \* per task: position of on_done
    handler_on,   \* per task: the thread on_done runs on
    is_shutdown,  \* executor.shutdown() has been called
    stdout_lock,  \* _stdout_lock: 0 when free, else the task whose on_done holds it
    stderr_lock,  \* _stderr_lock: likewise
    outstanding,  \* history: submissions of the task not yet completion-handled
    calls,        \* history: on_done invocations for the task's latest future
    done_at,      \* history: time.time() read by the task's last reschedule
    order,        \* history: tasks submitted in the current tick, in order
    key_at        \* history: per task, s["next"] when the tick selected it

vars == << schedule, max_workers, stop_event, clock, advances, pc, now, due,
           cur, idx, next_times, sleep_for, wake_at, work_queue, future,
           outcome, callback, handler, handler_on, is_shutdown, stdout_lock,
           stderr_lock, outstanding, calls, done_at, order, key_at >>

-----------------------------------------------------------------------------
(* Bounds of the model *)

MaxWorkersArg == 1     \* --max-workers: 0..MaxWorkersArg (0: the default)
MaxAdvance == 2        \* clock movements in one run
MaxAdvanceLive == 1    \* clock movements in one run of FairSpec

\* How far one clock movement goes: one tenth of a second, or one tenth of a
\* second less or more than the shortest period.
Deltas == {1, 8999, 9001}

-----------------------------------------------------------------------------
(* Program constants and the command line *)

\* the domains given on the command line: the runs modelled are those of one
\* domain, that is of two tasks, one per scan
DOMAINS == << "example.com" >>

Inf == -1              \* math.inf
FLOOR == 2             \* the 0.2 in max(min(next_times) - now, 0.2)
IDLE == 5              \* sleep_for = 0.5
DEFAULT_CAP == 32      \* min(32, max(1, total_tasks))

SCANS == << [name |-> "web_probe", period |-> 9000],
            [name |-> "port_scan", period |-> 18000] >>

Outcomes == {"ok", "failed", "not_found", "error"}

-----------------------------------------------------------------------------
(* Pure helpers *)

Max(a, b) == IF a >= b THEN a ELSE b
Min(a, b) == IF a <= b THEN a ELSE b

\* a <= b on floats where either may be math.inf
Leq(a, b) == IF b = Inf THEN TRUE ELSE IF a = Inf THEN FALSE ELSE a <= b

\* the schedule built at startup: one entry per (domain, scan), domain-major
BuildSchedule(domains, t0) ==
    [i \in 1..(Len(domains) * Len(SCANS)) |->
        LET d == domains[((i - 1) \div Len(SCANS)) + 1]
            s == SCANS[((i - 1) % Len(SCANS)) + 1]
        IN [domain |-> d, name |-> s.name, period |-> s.period,
            next |-> t0, running |-> FALSE]]

\* max_workers from --max-workers and the number of tasks
MaxWorkersOf(arg, total) ==
    IF arg # 0 /\ arg > 0 THEN arg ELSE Min(DEFAULT_CAP, Max(1, total))

Tasks == 1..Len(schedule)

RECURSIVE DueFrom(_, _, _)
DueFrom(sch, t, i) ==
    IF i > Len(sch) THEN << >>
    ELSE IF (~sch[i].running) /\ Leq(sch[i].next, t)
         THEN << i >> \o DueFrom(sch, t, i + 1)
         ELSE DueFrom(sch, t, i + 1)

RECURSIVE AllFrom(_, _, _)
AllFrom(sch, t, i) ==
    IF i > Len(sch) THEN << >>
    ELSE IF Leq(sch[i].next, t)
         THEN << i >> \o AllFrom(sch, t, i + 1)
         ELSE AllFrom(sch, t, i + 1)

\* mutant of DueList: the running flag is not looked at
DueListAnyRunning(sch, t) == AllFrom(sch, t, 1)

\* mutant of DueList: only the head of the schedule is ever looked at
DueListHeadOnly(sch, t) ==
    IF (~sch[1].running) /\ Leq(sch[1].next, t) THEN << 1 >> ELSE << >>

\* due = [s for s in schedule if (not s["running"]) and (s["next"] <= now)]
DueList(sch, t) == DueFrom(sch, t, 1)

\* insertion of task x into a list sorted by next, after every equal key
RECURSIVE InsertByNext(_, _, _)
InsertByNext(sch, x, lst) ==
    IF lst = << >> THEN << x >>
    ELSE IF Leq(sch[Head(lst)].next, sch[x].next)
         THEN << Head(lst) >> \o InsertByNext(sch, x, Tail(lst))
         ELSE << x >> \o lst

RECURSIVE SortFrom(_, _, _)
SortFrom(sch, lst, acc) ==
    IF lst = << >> THEN acc
    ELSE SortFrom(sch, Tail(lst), InsertByNext(sch, Head(lst), acc))

\* mutant of SortedByNext: the list is launched in schedule order
Unsorted(sch, lst) == lst

\* sorted(due, key=lambda x: x["next"]): ascending, stable
SortedByNext(sch, lst) == SortFrom(sch, lst, << >>)

RECURSIVE MinOf(_)
MinOf(lst) ==
    IF Len(lst) = 1 THEN lst[1]
    ELSE LET m == MinOf(Tail(lst))
         IN IF Leq(lst[1], m) THEN lst[1] ELSE m

\* mutant of SleepFor: the floor is not applied
SleepForNoFloor(nt, t) ==
    IF nt # << >>
    THEN (IF MinOf(nt) = Inf THEN Inf ELSE MinOf(nt) - t)
    ELSE IDLE

\* sleep_for = max(min(next_times) - now, 0.2) if next_times else 0.5
SleepFor(nt, t) ==
    IF nt # << >>
    THEN (IF MinOf(nt) = Inf THEN Inf ELSE Max(MinOf(nt) - t, FLOOR))
    ELSE IDLE

\* a worker thread owns the task's work item: run_scan is in progress, or the
\* future's callbacks are being invoked by the worker
Busy(t) == future[t] = "running" \/ (handler[t] # "none" /\ handler_on[t] = "worker")

BusyWorkers == Cardinality({t \in Tasks : Busy(t)})

\* mutant of WorkerFree: the pool starts an item whatever the bound
WorkerAlwaysFree == TRUE

\* ThreadPoolExecutor(max_workers): an item starts only on a free worker
WorkerFree == BusyWorkers < max_workers

-----------------------------------------------------------------------------
(* Initial state: main() up to the start of the while loop *)

Init ==
    \E arg \in 0..MaxWorkersArg :
        /\ schedule = BuildSchedule(DOMAINS, 0)
        /\ max_workers = MaxWorkersOf(arg, Len(DOMAINS) * Len(SCANS))
        /\ stop_event = FALSE
        /\ clock = 0
        /\ advances = 0
        /\ pc = "while"
        /\ now = 0
        /\ due = << >>
        /\ cur = 0
        /\ idx = 0
        /\ next_times = << >>
        /\ sleep_for = 0
        /\ wake_at = 0
        /\ work_queue = << >>
        /\ future = [t \in 1..(Len(DOMAINS) * Len(SCANS)) |-> "none"]
        /\ outcome = [t \in 1..(Len(DOMAINS) * Len(SCANS)) |-> "none"]
        /\ callback = [t \in 1..(Len(DOMAINS) * Len(SCANS)) |-> FALSE]
        /\ handler = [t \in 1..(Len(DOMAINS) * Len(SCANS)) |-> "none"]
        /\ handler_on = [t \in 1..(Len(DOMAINS) * Len(SCANS)) |-> "none"]
        /\ is_shutdown = FALSE
        /\ stdout_lock = 0
        /\ stderr_lock = 0
        /\ outstanding = [t \in 1..(Len(DOMAINS) * Len(SCANS)) |-> 0]
        /\ calls = [t \in 1..(Len(DOMAINS) * Len(SCANS)) |-> 0]
        /\ done_at = [t \in 1..(Len(DOMAINS) * Len(SCANS)) |-> 0]
        /\ order = << >>
        /\ key_at = [t \in 1..(Len(DOMAINS) * Len(SCANS)) |-> 0]

-----------------------------------------------------------------------------
(* The control thread: main()'s while loop.  A local that the loop will not *)
(* read again before assigning it is put back to its initial value.         *)

Locals == << now, due, cur, idx, next_times, sleep_for, wake_at >>
Pool == << work_queue, future, outcome, callback, handler, handler_on >>
History == << outstanding, calls, done_at, order, key_at >>
Locks == << stdout_lock, stderr_lock >>

NoLocals ==
    /\ now' = 0
    /\ due' = << >>
    /\ cur' = 0
    /\ idx' = 0
    /\ next_times' = << >>
    /\ sleep_for' = 0
    /\ wake_at' = 0

\* while not stop_event.is_set():
WhileTest ==
    /\ pc = "while"
    /\ pc' = IF stop_event THEN "finally" ELSE "tick"
    /\ UNCHANGED << schedule, max_workers, stop_event, clock, advances, Locals,
                    Pool, is_shutdown, Locks, History >>

\* now = time.time(); due = [...]; sorted(due, key=...)
Tick ==
    /\ pc = "tick"
    /\ now' = clock
    /\ due' = SortedByNext(schedule, DueList(schedule, clock))
    /\ key_at' = [t \in Tasks |->
                    IF \E i \in 1..Len(DueList(schedule, clock)) :
                           DueList(schedule, clock)[i] = t
                    THEN schedule[t].next ELSE 0]
    /\ pc' = "for"
    /\ UNCHANGED << schedule, max_workers, stop_event, clock, advances, cur, idx,
                    next_times, sleep_for, wake_at, Pool, is_shutdown, Locks,
                    outstanding, calls, done_at, order >>

\* mutant of launch_scan_submit: submit returns only once a worker is free to
\* take the item
launch_scan_submit_blocking ==
    /\ pc = "for"
    /\ due # << >>
    /\ WorkerFree
    /\ LET t == Head(due) IN
        /\ cur' = t
        /\ due' = Tail(due)
        /\ work_queue' = Append(work_queue, t)
        /\ future' = [future EXCEPT ![t] = "pending"]
        /\ outcome' = [outcome EXCEPT ![t] = "none"]
        /\ callback' = [callback EXCEPT ![t] = FALSE]
        /\ calls' = [calls EXCEPT ![t] = 0]
        /\ done_at' = [done_at EXCEPT ![t] = 0]
        /\ outstanding' = [outstanding EXCEPT ![t] = @ + 1]
        /\ order' = Append(order, t)
    /\ pc' = "set_running"
    /\ UNCHANGED << schedule, max_workers, stop_event, clock, advances, now, idx,
                    next_times, sleep_for, wake_at, handler, handler_on,
                    is_shutdown, Locks, key_at >>

\* mutant of launch_scan_submit: on_done is attached to the future as soon as
\* submit returns, ahead of the reservation
launch_scan_submit_attach_first ==
    /\ pc = "for"
    /\ due # << >>
    /\ LET t == Head(due) IN
        /\ cur' = t
        /\ due' = Tail(due)
        /\ work_queue' = Append(work_queue, t)
        /\ future' = [future EXCEPT ![t] = "pending"]
        /\ outcome' = [outcome EXCEPT ![t] = "none"]
        /\ callback' = [callback EXCEPT ![t] = TRUE]
        /\ calls' = [calls EXCEPT ![t] = 0]
        /\ done_at' = [done_at EXCEPT ![t] = 0]
        /\ outstanding' = [outstanding EXCEPT ![t] = @ + 1]
        /\ order' = Append(order, t)
    /\ pc' = "set_running"
    /\ UNCHANGED << schedule, max_workers, stop_event, clock, advances, now, idx,
                    next_times, sleep_for, wake_at, handler, handler_on,
                    is_shutdown, Locks, key_at >>

\* for s in sorted(...): launch_scan(s), up to future = executor.submit(run_scan, cmd)
launch_scan_submit ==
    /\ pc = "for"
    /\ due # << >>
    /\ LET t == Head(due) IN
        /\ cur' = t
        /\ due' = Tail(due)
        /\ work_queue' = Append(work_queue, t)
        /\ future' = [future EXCEPT ![t] = "pending"]
        /\ outcome' = [outcome EXCEPT ![t] = "none"]
        /\ callback' = [callback EXCEPT ![t] = FALSE]
        /\ calls' = [calls EXCEPT ![t] = 0]
        /\ done_at' = [done_at EXCEPT ![t] = 0]
        /\ outstanding' = [outstanding EXCEPT ![t] = @ + 1]
        /\ order' = Append(order, t)
    /\ pc' = "set_running"
    /\ UNCHANGED << schedule, max_workers, stop_event, clock, advances, now, idx,
                    next_times, sleep_for, wake_at, handler, handler_on,
                    is_shutdown, Locks, key_at >>

\* s["running"] = True
launch_scan_set_running ==
    /\ pc = "set_running"
    /\ schedule' = [schedule EXCEPT ![cur].running = TRUE]
    /\ pc' = "set_next"
    /\ UNCHANGED << max_workers, stop_event, clock, advances, Locals, Pool,
                    is_shutdown, Locks, History >>

\* s["next"] = math.inf
launch_scan_set_next ==
    /\ pc = "set_next"
    /\ schedule' = [schedule EXCEPT ![cur].next = Inf]
    /\ pc' = "add_done_callback"
    /\ UNCHANGED << max_workers, stop_event, clock, advances, Locals, Pool,
                    is_shutdown, Locks, History >>

\* mutant of launch_scan_add_done_callback: on_done is only ever appended, so a
\* future that finished first never has it called
add_done_callback_append_only ==
    /\ pc = "add_done_callback"
    /\ callback' = [callback EXCEPT ![cur] = TRUE]
    /\ pc' = "for"
    /\ cur' = 0
    /\ UNCHANGED << schedule, max_workers, stop_event, clock, advances, now, due,
                    idx, next_times, sleep_for, wake_at, work_queue, future,
                    outcome, handler, handler_on, is_shutdown, Locks, History >>

\* future.add_done_callback(on_done): a finished future calls on_done at once,
\* on the calling thread; any other gets it appended to its callbacks
launch_scan_add_done_callback ==
    /\ pc = "add_done_callback"
    /\ IF future[cur] = "finished"
       THEN /\ handler' = [handler EXCEPT ![cur] = "result"]
            /\ handler_on' = [handler_on EXCEPT ![cur] = "main"]
            /\ calls' = [calls EXCEPT ![cur] = @ + 1]
            /\ pc' = "callback"
            /\ UNCHANGED << callback, cur >>
       ELSE /\ callback' = [callback EXCEPT ![cur] = TRUE]
            /\ pc' = "for"
            /\ cur' = 0
            /\ UNCHANGED << handler, handler_on, calls >>
    /\ UNCHANGED << schedule, max_workers, stop_event, clock, advances, now, due,
                    idx, next_times, sleep_for, wake_at, work_queue, future,
                    outcome, is_shutdown, Locks, outstanding, done_at, order, key_at >>

\* the for loop is over: next_times = [...] starts at the head of schedule
ForDone ==
    /\ pc = "for"
    /\ due = << >>
    /\ idx' = 1
    /\ next_times' = << >>
    /\ order' = << >>
    /\ key_at' = [t \in Tasks |-> 0]
    /\ pc' = "next_times"
    /\ UNCHANGED << schedule, max_workers, stop_event, clock, advances, now, due,
                    cur, sleep_for, wake_at, Pool, is_shutdown, Locks, outstanding,
                    calls, done_at >>

\* mutant of NextTimesStep: the comprehension has no `if not s["running"]`
NextTimesStepUnfiltered ==
    /\ pc = "next_times"
    /\ idx <= Len(schedule)
    /\ next_times' = Append(next_times, schedule[idx].next)
    /\ idx' = idx + 1
    /\ UNCHANGED << schedule, max_workers, stop_event, clock, advances, pc, now,
                    due, cur, sleep_for, wake_at, Pool, is_shutdown, Locks, History >>

\* one element of [s["next"] for s in schedule if not s["running"]]
NextTimesStep ==
    /\ pc = "next_times"
    /\ idx <= Len(schedule)
    /\ next_times' = IF schedule[idx].running THEN next_times
                     ELSE Append(next_times, schedule[idx].next)
    /\ idx' = idx + 1
    /\ UNCHANGED << schedule, max_workers, stop_event, clock, advances, pc, now,
                    due, cur, sleep_for, wake_at, Pool, is_shutdown, Locks, History >>

\* sleep_for = ...; time.sleep(sleep_for) begins
Sleep ==
    /\ pc = "next_times"
    /\ idx > Len(schedule)
    /\ sleep_for' = SleepFor(next_times, now)
    /\ wake_at' = IF SleepFor(next_times, now) = Inf THEN Inf
                  ELSE clock + SleepFor(next_times, now)
    /\ pc' = "sleep"
    /\ now' = 0
    /\ idx' = 0
    /\ next_times' = << >>
    /\ UNCHANGED << schedule, max_workers, stop_event, clock, advances, due,
                    cur, Pool, is_shutdown, Locks, History >>

\* time.sleep returns, no earlier than asked
Wake ==
    /\ pc = "sleep"
    /\ wake_at # Inf
    /\ clock >= wake_at
    /\ pc' = "while"
    /\ NoLocals
    /\ UNCHANGED << schedule, max_workers, stop_event, clock, advances,
                    Pool, is_shutdown, Locks, History >>

-----------------------------------------------------------------------------
(* The worker pool *)

\* a worker thread takes the oldest item of the queue and calls run_scan
WorkerStart ==
    /\ pc # "terminated"
    /\ work_queue # << >>
    /\ WorkerFree
    /\ future' = [future EXCEPT ![Head(work_queue)] = "running"]
    /\ work_queue' = Tail(work_queue)
    /\ UNCHANGED << schedule, max_workers, stop_event, clock, advances, pc,
                    Locals, outcome, callback, handler, handler_on,
                    is_shutdown, Locks, History >>

\* run_scan returns (exit status zero or not) or raises; the worker sets the
\* future's result and invokes the callbacks attached by then
run_scan(t, o) ==
    /\ pc # "terminated"
    /\ future[t] = "running"
    /\ future' = [future EXCEPT ![t] = "finished"]
    /\ outcome' = [outcome EXCEPT ![t] = o]
    /\ IF callback[t]
       THEN /\ handler' = [handler EXCEPT ![t] = "result"]
            /\ handler_on' = [handler_on EXCEPT ![t] = "worker"]
            /\ calls' = [calls EXCEPT ![t] = @ + 1]
       ELSE UNCHANGED << handler, handler_on, calls >>
    /\ UNCHANGED << schedule, max_workers, stop_event, clock, advances, pc,
                    Locals, work_queue, callback, is_shutdown, Locks, outstanding,
                    done_at, order, key_at >>

-----------------------------------------------------------------------------
(* on_done, on whichever thread runs it *)

\* on_done returns: to add_done_callback in the control thread, or to the
\* worker; nothing refers to the future any more
Return(t) ==
    /\ handler' = [handler EXCEPT ![t] = "none"]
    /\ handler_on' = [handler_on EXCEPT ![t] = "none"]
    /\ future' = [future EXCEPT ![t] = "none"]
    /\ callback' = [callback EXCEPT ![t] = FALSE]
    /\ outstanding' = [outstanding EXCEPT ![t] = @ - 1]
    /\ UNCHANGED outcome
    /\ IF handler_on[t] = "main"
       THEN pc' = "for" /\ cur' = 0
       ELSE UNCHANGED << pc, cur >>

\* mutant of on_done_result: every raised error is taken for the fatal one
on_done_result_any_error_fatal(t) ==
    /\ pc # "terminated"
    /\ handler[t] = "result"
    /\ IF outcome[t] \in {"not_found", "error"}
       THEN /\ stop_event' = TRUE
            /\ Return(t)
       ELSE /\ handler' = [handler EXCEPT ![t] =
                            IF outcome[t] = "error" THEN "set_next" ELSE "stdout"]
            /\ UNCHANGED << stop_event, handler_on, future, outcome, callback,
                            outstanding, pc, cur >>
    /\ UNCHANGED << schedule, max_workers, clock, advances, now, due, idx,
                    next_times, sleep_for, wake_at, work_queue,
                    is_shutdown, Locks, calls, done_at, order, key_at >>

\* mutant of on_done_result: the not-found path sets the flag and then
\* reschedules the task like the path of any other raised error
on_done_result_not_found_reschedules(t) ==
    /\ pc # "terminated"
    /\ handler[t] = "result"
    /\ stop_event' = (stop_event \/ outcome[t] = "not_found")
    /\ handler' = [handler EXCEPT ![t] =
                    IF outcome[t] \in {"error", "not_found"} THEN "set_next"
                    ELSE "stdout"]
    /\ UNCHANGED << schedule, max_workers, clock, advances, pc, Locals,
                    work_queue, future, outcome, callback, handler_on,
                    is_shutdown, Locks, History >>

\* try: ok, duration, proc = fut.result(); except FileNotFoundError sets the
\* stop flag and returns; except Exception goes to its two writes, which are
\* those of the end of on_done; otherwise on_done goes on to the output
on_done_result(t) ==
    /\ pc # "terminated"
    /\ handler[t] = "result"
    /\ IF outcome[t] = "not_found"
       THEN /\ stop_event' = TRUE
            /\ Return(t)
       ELSE /\ handler' = [handler EXCEPT ![t] =
                            IF outcome[t] = "error" THEN "set_next" ELSE "stdout"]
            /\ UNCHANGED << stop_event, handler_on, future, outcome, callback,
                            outstanding, pc, cur >>
    /\ UNCHANGED << schedule, max_workers, clock, advances, now, due, idx,
                    next_times, sleep_for, wake_at, work_queue,
                    is_shutdown, Locks, calls, done_at, order, key_at >>

\* if proc.stdout: the captured standard output is empty
on_done_stdout_skip(t) ==
    /\ pc # "terminated"
    /\ handler[t] = "stdout"
    /\ handler' = [handler EXCEPT ![t] = "stderr"]
    /\ UNCHANGED stdout_lock
    /\ UNCHANGED << schedule, max_workers, stop_event, clock, advances, pc,
                    Locals, work_queue, future, outcome, callback, handler_on,
                    is_shutdown, stderr_lock, History >>

\* mutant of on_done_stdout_acquire: the lock is taken whoever holds it
on_done_stdout_acquire_unguarded(t) ==
    /\ pc # "terminated"
    /\ handler[t] = "stdout"
    /\ stdout_lock' = t
    /\ handler' = [handler EXCEPT ![t] = "stdout_write"]
    /\ UNCHANGED << schedule, max_workers, stop_event, clock, advances, pc,
                    Locals, work_queue, future, outcome, callback, handler_on,
                    is_shutdown, stderr_lock, History >>

\* with _stdout_lock: the lock is taken once it is free
on_done_stdout_acquire(t) ==
    /\ pc # "terminated"
    /\ handler[t] = "stdout"
    /\ stdout_lock = 0
    /\ stdout_lock' = t
    /\ handler' = [handler EXCEPT ![t] = "stdout_write"]
    /\ UNCHANGED << schedule, max_workers, stop_event, clock, advances, pc,
                    Locals, work_queue, future, outcome, callback, handler_on,
                    is_shutdown, stderr_lock, History >>

\* if proc.stdout: with _stdout_lock:
on_done_stdout(t) == on_done_stdout_skip(t) \/ on_done_stdout_acquire(t)

\* sys.stdout.write(proc.stdout); sys.stdout.flush(); the lock is released
on_done_stdout_write(t) ==
    /\ pc # "terminated"
    /\ handler[t] = "stdout_write"
    /\ stdout_lock' = 0
    /\ handler' = [handler EXCEPT ![t] = "stderr"]
    /\ UNCHANGED << schedule, max_workers, stop_event, clock, advances, pc,
                    Locals, work_queue, future, outcome, callback, handler_on,
                    is_shutdown, stderr_lock, History >>

\* if proc.stderr: the captured standard error is empty
on_done_stderr_skip(t) ==
    /\ pc # "terminated"
    /\ handler[t] = "stderr"
    /\ handler' = [handler EXCEPT ![t] = "set_next"]
    /\ UNCHANGED stderr_lock
    /\ UNCHANGED << schedule, max_workers, stop_event, clock, advances, pc,
                    Locals, work_queue, future, outcome, callback, handler_on,
                    is_shutdown, stdout_lock, History >>

\* with _stderr_lock: the lock is taken once it is free
on_done_stderr_acquire(t) ==
    /\ pc # "terminated"
    /\ handler[t] = "stderr"
    /\ stderr_lock = 0
    /\ stderr_lock' = t
    /\ handler' = [handler EXCEPT ![t] = "stderr_write"]
    /\ UNCHANGED << schedule, max_workers, stop_event, clock, advances, pc,
                    Locals, work_queue, future, outcome, callback, handler_on,
                    is_shutdown, stdout_lock, History >>

\* if proc.stderr: with _stderr_lock:
on_done_stderr(t) == on_done_stderr_skip(t) \/ on_done_stderr_acquire(t)

\* sys.stderr.write(proc.stderr); sys.stderr.flush(); the lock is released
on_done_stderr_write(t) ==
    /\ pc # "terminated"
    /\ handler[t] = "stderr_write"
    /\ stderr_lock' = 0
    /\ handler' = [handler EXCEPT ![t] = "set_next"]
    /\ UNCHANGED << schedule, max_workers, stop_event, clock, advances, pc,
                    Locals, work_queue, future, outcome, callback, handler_on,
                    is_shutdown, stdout_lock, History >>

\* mutant of on_done_set_next: the period is added to main's `now`, the time
\* of the tick, which the closure can see
on_done_set_next_from_tick(t) ==
    /\ pc # "terminated"
    /\ handler[t] = "set_next"
    /\ schedule' = [schedule EXCEPT ![t].next = now + schedule[t].period]
    /\ done_at' = [done_at EXCEPT ![t] = clock]
    /\ handler' = [handler EXCEPT ![t] = "set_running"]
    /\ UNCHANGED << max_workers, stop_event, clock, advances, pc, Locals,
                    work_queue, future, outcome, callback, handler_on,
                    is_shutdown, Locks, outstanding, calls, order, key_at >>

\* mutant of on_done_set_next: the two writes of on_done are swapped, running
\* is cleared first
on_done_clear_running_first(t) ==
    /\ pc # "terminated"
    /\ handler[t] = "set_next"
    /\ schedule' = [schedule EXCEPT ![t].running = FALSE]
    /\ done_at' = [done_at EXCEPT ![t] = clock]
    /\ handler' = [handler EXCEPT ![t] = "set_running"]
    /\ UNCHANGED << max_workers, stop_event, clock, advances, pc, Locals,
                    work_queue, future, outcome, callback, handler_on,
                    is_shutdown, Locks, outstanding, calls, order, key_at >>

\* s["next"] = time.time() + s["period"]
on_done_set_next(t) ==
    /\ pc # "terminated"
    /\ handler[t] = "set_next"
    /\ schedule' = [schedule EXCEPT ![t].next = clock + schedule[t].period]
    /\ done_at' = [done_at EXCEPT ![t] = clock]
    /\ handler' = [handler EXCEPT ![t] = "set_running"]
    /\ UNCHANGED << max_workers, stop_event, clock, advances, pc, Locals,
                    work_queue, future, outcome, callback, handler_on,
                    is_shutdown, Locks, outstanding, calls, order, key_at >>

\* s["running"] = False, and on_done returns
on_done_set_running(t) ==
    /\ pc # "terminated"
    /\ handler[t] = "set_running"
    /\ schedule' = [schedule EXCEPT ![t].running = FALSE]
    /\ Return(t)
    /\ UNCHANGED << max_workers, stop_event, clock, advances, now, due, idx,
                    next_times, sleep_for, wake_at, work_queue,
                    is_shutdown, Locks, calls, done_at, order, key_at >>

-----------------------------------------------------------------------------
(* Shutdown *)

InLoop == pc \in {"while", "tick", "for", "set_running", "set_next",
                  "add_done_callback", "callback", "next_times", "sleep"}

\* except KeyboardInterrupt: raised in the control thread wherever it is; an
\* on_done it was running for add_done_callback is cut short, and a `with`
\* block it was in releases its lock on the way out
KeyboardInterrupt ==
    /\ InLoop
    /\ pc' = "finally"
    /\ NoLocals
    /\ order' = << >>
    /\ key_at' = [t \in Tasks |-> 0]
    /\ IF pc = "callback"
       THEN /\ handler' = [handler EXCEPT ![cur] = "none"]
            /\ handler_on' = [handler_on EXCEPT ![cur] = "none"]
            /\ stdout_lock' = IF stdout_lock = cur THEN 0 ELSE stdout_lock
            /\ stderr_lock' = IF stderr_lock = cur THEN 0 ELSE stderr_lock
       ELSE UNCHANGED << handler, handler_on, Locks >>
    /\ UNCHANGED << schedule, max_workers, stop_event, clock, advances,
                    work_queue, future, outcome, callback, is_shutdown,
                    outstanding, calls, done_at >>

\* finally: executor.shutdown(wait=False); main() returns
Shutdown ==
    /\ pc = "finally"
    /\ is_shutdown' = TRUE
    /\ pc' = "atexit"
    /\ UNCHANGED << schedule, max_workers, stop_event, clock, advances, Locals,
                    Pool, Locks, History >>

\* interpreter exit: the executor's worker threads are joined, and they leave
\* only once the queue is drained and their item is done
ProcessExit ==
    /\ pc = "atexit"
    /\ work_queue = << >>
    /\ BusyWorkers = 0
    /\ pc' = "terminated"
    /\ UNCHANGED << schedule, max_workers, stop_event, clock, advances, Locals,
                    Pool, is_shutdown, Locks, History >>

-----------------------------------------------------------------------------
(* Time *)

Advance ==
    /\ pc # "terminated"
    /\ advances < MaxAdvance
    /\ \E d \in Deltas : clock' = clock + d
    /\ advances' = advances + 1
    /\ UNCHANGED << schedule, max_workers, stop_event, pc, Locals, Pool,
                    is_shutdown, Locks, History >>

-----------------------------------------------------------------------------

Next ==
    \/ WhileTest
    \/ Tick
    \/ launch_scan_submit
    \/ launch_scan_set_running
    \/ launch_scan_set_next
    \/ launch_scan_add_done_callback
    \/ ForDone
    \/ NextTimesStep
    \/ Sleep
    \/ Wake
    \/ WorkerStart
    \/ \E t \in Tasks, o \in Outcomes : run_scan(t, o)
    \/ \E t \in Tasks : on_done_result(t)
    \/ \E t \in Tasks : on_done_stdout(t)
    \/ \E t \in Tasks : on_done_stdout_write(t)
    \/ \E t \in Tasks : on_done_stderr(t)
    \/ \E t \in Tasks : on_done_stderr_write(t)
    \/ \E t \in Tasks : on_done_set_next(t)
    \/ \E t \in Tasks : on_done_set_running(t)
    \/ KeyboardInterrupt
    \/ Shutdown
    \/ ProcessExit
    \/ Advance

Spec == Init /\ [][Next]_vars

\* The control thread and the worker threads are scheduled fairly and every
\* run_scan returns or raises; the clock and Ctrl-C are under no obligation.
MainStep ==
    \/ WhileTest
    \/ Tick
    \/ launch_scan_submit
    \/ launch_scan_set_running
    \/ launch_scan_set_next
    \/ launch_scan_add_done_callback
    \/ ForDone
    \/ NextTimesStep
    \/ Sleep
    \/ Wake
    \/ Shutdown
    \/ ProcessExit

PoolStep(t) ==
    \/ \E o \in Outcomes : run_scan(t, o)
    \/ on_done_result(t)
    \/ on_done_stdout(t)
    \/ on_done_stdout_write(t)
    \/ on_done_stderr(t)
    \/ on_done_stderr_write(t)
    \/ on_done_set_next(t)
    \/ on_done_set_running(t)

Fairness ==
    /\ WF_vars(MainStep)
    /\ WF_vars(WorkerStart)
    /\ \A t \in 1..(Len(DOMAINS) * Len(SCANS)) : WF_vars(t \in Tasks /\ PoolStep(t))

\* the clock of the fair runs
AdvanceLive ==
    /\ advances < MaxAdvanceLive
    /\ Advance

\* a run that Ctrl-C does not cut short
NextLive ==
    \/ MainStep
    \/ WorkerStart
    \/ \E t \in Tasks : PoolStep(t)
    \/ AdvanceLive

FairSpec == Init /\ [][NextLive]_vars /\ Fairness

\* the fair runs in which, besides, time passes for as long as the model's
\* clock can move
FairSpecTimed == Init /\ [][NextLive]_vars /\ Fairness /\ WF_vars(AdvanceLive)

-----------------------------------------------------------------------------
(* Vocabulary of the properties *)

InSeq(x, lst) == \E i \in 1..Len(lst) : lst[i] = x

Occurrences(x, lst) == Cardinality({i \in 1..Len(lst) : lst[i] = x})

\* the control thread is inside launch_scan(t), before add_done_callback returns
Launching(t) ==
    cur = t /\ pc \in {"set_running", "set_next", "add_done_callback", "callback"}

\* on_done has run to its end for the task's latest submission
Handled(t) == future[t] = "none" /\ outcome[t] # "none"

\* the control thread is at the top of a tick, or in a sleep that has run out
LoopAwake ==
    \/ pc \in {"while", "tick"}
    \/ pc = "sleep" /\ wake_at # Inf /\ clock >= wake_at

\* the task is not running and due with the loop awake, or a tick has it in
\* its list of due tasks, or launch_scan has just submitted it
Pending(t) ==
    /\ ~stop_event
    /\ ~schedule[t].running
    /\ \/ LoopAwake /\ Leq(schedule[t].next, clock)
       \/ InSeq(t, due)
       \/ cur = t /\ pc = "set_running"

\* the control thread is at one of the two reservation writes of launch_scan(t)
Reserving(t) == cur = t /\ pc \in {"set_running", "set_next"}

\* on_done of the task is at one of its two writes of the task
Rescheduling(t) == handler[t] \in {"set_next", "set_running"}

-----------------------------------------------------------------------------
\* C1: at most one execution of a task is outstanding (submitted and not yet
\* completion-handled), and a task that is outstanding is never in the list
\* of due tasks a scheduler tick has selected.
C1_AtMostOneOutstanding ==
    \A t \in Tasks :
        /\ outstanding[t] <= 1
        /\ InSeq(t, due) => outstanding[t] = 0

\* a tick has selected nothing while a reserved task's job is executing
C1_Witness ==
    /\ pc = "for" /\ due = << >> /\ order = << >> /\ clock > 0
    /\ \E t \in Tasks :
        outstanding[t] = 1 /\ schedule[t].running /\ future[t] = "running"

-----------------------------------------------------------------------------
\* C3: within one tick the tasks are submitted in ascending order of the
\* next values they were selected with, equal values in schedule order.
C3_OldestFirst ==
    \A i, j \in 1..Len(order) :
        i < j =>
            \/ key_at[order[i]] < key_at[order[j]]
            \/ key_at[order[i]] = key_at[order[j]] /\ order[i] < order[j]

\* two tasks submitted in one tick, the later one of the schedule first
C3_Witness ==
    /\ Len(order) = 2
    /\ order[1] > order[2]
    /\ key_at[order[1]] < key_at[order[2]]

-----------------------------------------------------------------------------
\* C4: never more than max_workers workers are busy, so never more than
\* max_workers jobs are executing; a submitted job that has not started is in
\* the pool's queue, exactly once, and its task stays reserved meanwhile.
C4_BoundedWorkers ==
    /\ BusyWorkers <= max_workers
    /\ Cardinality({t \in Tasks : future[t] = "running"}) <= max_workers
    /\ \A t \in Tasks :
        /\ Occurrences(t, work_queue) = (IF future[t] = "pending" THEN 1 ELSE 0)
        /\ (future[t] = "pending" /\ InLoop /\ ~Launching(t)) =>
               (schedule[t].running /\ schedule[t].next = Inf)

\* every worker is busy and a reserved task waits in the queue
C4_Witness ==
    /\ BusyWorkers = max_workers
    /\ \E t \in Tasks :
        /\ InSeq(t, work_queue)
        /\ schedule[t].running
        /\ ~Launching(t)

-----------------------------------------------------------------------------
\* C2: once on_done has finished for a job that ran (exit status zero or
\* not), the task is not running and its next is the time on_done read plus
\* the task's period, until the task is reserved again.
C2_RescheduleFromCompletion ==
    \A t \in Tasks :
        (Handled(t) /\ outcome[t] \in {"ok", "failed"}) =>
            /\ ~schedule[t].running
            /\ schedule[t].next = done_at[t] + schedule[t].period

\* a failed run handled after the clock has moved, rescheduled from then
C2_Witness ==
    \E t \in Tasks :
        /\ Handled(t) /\ outcome[t] = "failed"
        /\ done_at[t] > 0
        /\ ~schedule[t].running
        /\ schedule[t].next = done_at[t] + schedule[t].period

-----------------------------------------------------------------------------
\* C5: once main has left the loop and shut the pool down without waiting,
\* the process can terminate at once, whatever job is still in flight.
C5_ShutdownNonBlocking == (stop_event /\ pc = "atexit") => ENABLED ProcessExit

-----------------------------------------------------------------------------
\* C6: once the stop flag is set no task is reserved or submitted any more.
C6_NoDispatchAfterStop ==
    [][stop_event =>
          \A t \in Tasks :
              /\ outstanding'[t] <= outstanding[t]
              /\ schedule'[t].running => schedule[t].running]_vars

-----------------------------------------------------------------------------
\* C7: every delay the loop computes is at least the floor and never zero:
\* the idle delay when the comprehension found no task not running, else the
\* larger of the floor and the earliest next found minus now.
C7_SleepFloor ==
    [][(pc = "next_times" /\ pc' = "sleep") =>
          /\ Leq(FLOOR, sleep_for')
          /\ sleep_for' # 0
          /\ next_times = << >> => sleep_for' = IDLE
          /\ (next_times # << >> /\ MinOf(next_times) # Inf) =>
                 sleep_for' = Max(MinOf(next_times) - now, FLOOR)]_vars

\* the loop sleeps for the floor although a task is due sooner than that
C7_Witness ==
    /\ pc = "sleep"
    /\ sleep_for = FLOOR
    /\ \E t \in Tasks :
        ~schedule[t].running /\ schedule[t].next > clock /\ schedule[t].next < wake_at

-----------------------------------------------------------------------------
\* C8 as claimed: in every state each task is running or carries a finite
\* next, and never both.
C8_ExactlyOne ==
    \A t \in Tasks : schedule[t].running <=> (schedule[t].next = Inf)

\* C8 as amended: a task that is not running always carries a finite next;
\* while the loop is live a running task carries a finite next only between
\* the two writes of its reservation or of its on_done.
C8_NeverIdleWithSentinel ==
    \A t \in Tasks :
        /\ ~schedule[t].running => schedule[t].next # Inf
        /\ (schedule[t].running /\ schedule[t].next # Inf /\ InLoop) =>
               \/ cur = t /\ pc = "set_next"
               \/ handler[t] = "set_running"

\* on_done has rescheduled the task and not yet cleared running
C8_Witness ==
    \E t \in Tasks :
        /\ handler[t] = "set_running"
        /\ schedule[t].running
        /\ schedule[t].next = done_at[t] + schedule[t].period

-----------------------------------------------------------------------------
\* C9, safety: on_done is invoked at most once for a submission, it has been
\* invoked as soon as the future is finished and add_done_callback has
\* returned, and a submission stops being outstanding only through its on_done.
C9_HandledExactlyOnce ==
    \A t \in Tasks :
        /\ calls[t] <= 1
        /\ handler[t] # "none" => calls[t] = 1
        /\ (future[t] = "finished" /\ InLoop /\ ~Launching(t)) =>
               (calls[t] = 1 /\ handler[t] # "none")
        /\ Handled(t) => calls[t] = 1
        /\ outstanding[t] = (IF future[t] = "none" THEN 0 ELSE 1)

\* C9, liveness: unless the stop flag is set or the loop has been left, every
\* submission is eventually completion-handled.
C9_EventuallyHandled ==
    \A t \in 1..(Len(DOMAINS) * Len(SCANS)) :
        (t \in Tasks /\ outstanding[t] = 1) ~>
            (t \in Tasks /\ (outstanding[t] = 0 \/ stop_event \/ ~InLoop))

\* C9: on_done is invoked exactly once for every submission: never twice, and
\* eventually once when the jobs return and no stop has occurred.
C9_ExactlyOnce == []C9_HandledExactlyOnce /\ C9_EventuallyHandled

\* the job finished before add_done_callback, which then ran on_done itself
C9_Witness ==
    \E t \in Tasks :
        /\ Handled(t) /\ calls[t] = 1 /\ outstanding[t] = 0
        /\ \E u \in Tasks : u # t /\ handler[u] # "none" /\ handler_on[u] = "main"

-----------------------------------------------------------------------------
\* C10: the stop flag is set only by the handling of an executable-not-found
\* outcome; a failed exit status or any other raised error leaves the task
\* not running with next at the handling time plus its period.
C10_OnlyNotFoundStops ==
    /\ stop_event =>
           \E t \in Tasks : Handled(t) /\ outcome[t] = "not_found" /\ schedule[t].running
    /\ \A t \in Tasks :
           (Handled(t) /\ outcome[t] \in {"failed", "error"}) =>
               /\ ~schedule[t].running
               /\ schedule[t].next = done_at[t] + schedule[t].period

\* a raised error was handled, the flag is clear and a later tick dispatches
C10_Witness ==
    /\ ~stop_event
    /\ pc = "set_running"
    /\ \E t \in Tasks :
        /\ Handled(t) /\ outcome[t] = "error"
        /\ ~schedule[t].running
        /\ now > done_at[t]

-----------------------------------------------------------------------------
\* C11: the loop stays within the floor of every task's due time: while the
\* loop is live and asleep until the next of one task that is not running,
\* every other task that is not running (on_done may have rescheduled it
\* since the sleep began) has its next no more than the floor before the
\* wake-up time, before which no tick can occur.
C11_WakeWithinFloor ==
    \A t, u \in Tasks :
        (/\ pc = "sleep"
         /\ ~stop_event
         /\ u # t
         /\ ~schedule[u].running
         /\ wake_at = schedule[u].next
         /\ ~schedule[t].running) =>
            Leq(wake_at, schedule[t].next + FLOOR)

-----------------------------------------------------------------------------
\* C12: the sleep is interruptible by the stop flag: whenever the flag is set
\* and the loop is asleep, the sleep can return at once, without the clock
\* having reached the end of the computed delay.
C12_SleepInterruptible == (pc = "sleep" /\ stop_event) => ENABLED Wake

-----------------------------------------------------------------------------
\* C13: the reservation precedes the return of the submission: whenever the
\* pool holds a job of a task (queued, executing or finished) and on_done has
\* not begun its own writes, the task is running and its next is the sentinel.
C13_ReservedBeforeAccepted ==
    \A t \in Tasks :
        (future[t] # "none" /\ handler[t] # "set_running") =>
            (schedule[t].running /\ schedule[t].next = Inf)

-----------------------------------------------------------------------------
\* C14: on_done never runs on the control thread: every invocation in
\* progress is on a worker thread of the pool.
C14_HandlerOnWorker ==
    \A t \in Tasks : handler[t] # "none" => handler_on[t] = "worker"

-----------------------------------------------------------------------------
\* C15, ordering: while the control thread is at the reservation writes of a
\* task, on_done has not been invoked for the submission being reserved.
C15_ReservationFirst ==
    \A t \in Tasks : Reserving(t) => (handler[t] = "none" /\ calls[t] = 0)

\* C15, writers: a step changes the running and next of at most one task, and
\* it is a reservation write of the control thread for that task or a write
\* of that task's own on_done.
C15_OnlyTwoWriters ==
    [][\A t \in Tasks :
          schedule'[t] # schedule[t] =>
              /\ \A u \in Tasks \ {t} : schedule'[u] = schedule[u]
              /\ \/ Reserving(t) /\ pc' # pc /\ handler' = handler
                 \/ Rescheduling(t) /\ handler'[t] # handler[t] /\ ~Reserving(t)]_vars

\* C15: running and next of a task are written only by the reserving tick and
\* by the task's own on_done, the reservation's two writes before on_done's
\* two, and on_done of one task leaves every other task as it was.
C15_DisjointWriters == []C15_ReservationFirst /\ C15_OnlyTwoWriters

\* on_done of one task has rescheduled it while the control thread is in the
\* middle of reserving another
C15_Witness ==
    \E t, u \in Tasks :
        /\ u # t
        /\ handler[t] = "set_running"
        /\ schedule[t].next # Inf
        /\ Reserving(u)
        /\ pc = "set_next"

-----------------------------------------------------------------------------
\* C16, afterwards: a task whose job was handled as executable-not-found is
\* still running with the sentinel as its next, and is in no tick's due list
\* and not in the pool's queue.
C16_NotFoundStaysReserved ==
    \A t \in Tasks :
        (Handled(t) /\ outcome[t] = "not_found") =>
            /\ schedule[t].running
            /\ schedule[t].next = Inf
            /\ ~InSeq(t, due)
            /\ ~InSeq(t, work_queue)

\* C16, the step: on_done's handling of executable-not-found sets the stop
\* flag and leaves the schedule, the locks and the pool's queue as they were.
C16_NotFoundStep ==
    [][\A t \in Tasks :
          (/\ handler[t] = "result"
           /\ outcome[t] = "not_found"
           /\ handler'[t] # handler[t]
           /\ pc' # "finally") =>
              /\ stop_event'
              /\ handler'[t] = "none"
              /\ schedule' = schedule
              /\ UNCHANGED << Locks, work_queue, is_shutdown, clock >>]_vars

\* C16: on the executable-not-found path on_done changes nothing but the stop
\* flag: the task stays running with the sentinel, no other task changes, and
\* the task is never selected as due again.
C16_NotFoundFrame == []C16_NotFoundStaysReserved /\ C16_NotFoundStep

\* a tick that began after the not-found was handled selects another task as
\* due and leaves this one out
C16_Witness ==
    /\ pc = "for"
    /\ stop_event
    /\ \E t, u \in Tasks :
        /\ Handled(t) /\ outcome[t] = "not_found"
        /\ schedule[t].running
        /\ u # t
        /\ InSeq(u, due)
        /\ now > 0

-----------------------------------------------------------------------------
\* C17: the pool never blocks the loop: wherever the control thread is in a
\* tick, from reading the time to computing the delay, its next step can be
\* taken, whatever the workers are doing and however many are busy.
C17_LoopNeverBlocked ==
    pc \in {"tick", "for", "set_running", "set_next", "add_done_callback",
            "next_times"} => ENABLED MainStep

\* every worker is busy and the tick still has a due task to submit
C17_Witness ==
    /\ pc = "for"
    /\ due # << >>
    /\ BusyWorkers = max_workers
    /\ \E t \in Tasks : future[t] = "running"

-----------------------------------------------------------------------------
\* C18: at most one on_done at a time is writing captured output to stdout,
\* and at most one to stderr; an on_done that is about to write to a stream
\* can take that stream's lock whenever no on_done is writing to that same
\* stream, whoever is writing to the other.
C18_OutputExclusive ==
    /\ Cardinality({t \in Tasks : handler[t] = "stdout_write"}) <= 1
    /\ Cardinality({t \in Tasks : handler[t] = "stderr_write"}) <= 1
    /\ \A t \in Tasks :
        /\ (handler[t] = "stdout" /\ \A u \in Tasks : handler[u] # "stdout_write")
               => ENABLED on_done_stdout_acquire(t)
        /\ (handler[t] = "stderr" /\ \A u \in Tasks : handler[u] # "stderr_write")
               => ENABLED on_done_stderr_acquire(t)
        /\ handler[t] = "stdout_write" => stdout_lock = t
        /\ handler[t] = "stderr_write" => stderr_lock = t

\* one on_done is writing to stdout while another is writing to stderr
C18_Witness ==
    \E t, u \in Tasks :
        /\ handler[t] = "stdout_write"
        /\ handler[u] = "stderr_write"

-----------------------------------------------------------------------------
\* C19, safety: a task that is not running never carries the sentinel, the
\* list of next values the tick collects holds no sentinel, and the delay the
\* loop sleeps for and the time it may wake at are finite.
C19_FiniteSleep ==
    /\ \A t \in Tasks : ~schedule[t].running => schedule[t].next # Inf
    /\ \A i \in 1..Len(next_times) : next_times[i] # Inf
    /\ pc = "sleep" => (sleep_for # Inf /\ wake_at # Inf /\ sleep_for >= FLOOR)

\* C19, liveness: once the stop flag is set the loop eventually tests it and
\* leaves, unless it is asleep and the clock of the model can no longer reach
\* the end of the sleep.
C19_StopReachesExit ==
    stop_event ~>
        (~InLoop \/ (pc = "sleep" /\ clock < wake_at /\ advances = MaxAdvanceLive))

\* C19: the loop never sleeps forever, and a stop is eventually observed at
\* the top of a tick.
C19_NeverSleepsForever == []C19_FiniteSleep /\ C19_StopReachesExit

\* the loop has slept out its delay and is back at the top of a tick with the
\* stop flag set
C19_Witness ==
    /\ pc = "while"
    /\ stop_event
    /\ clock > 0
    /\ \E t \in Tasks : ~schedule[t].running /\ schedule[t].next > clock

-----------------------------------------------------------------------------
\* C20, dispatch, step by step: a task that is not running and whose next has
\* passed, with the loop at the top of a tick or in a sleep that has run out,
\* stays selected (due at the top of the tick, then in the tick's due list,
\* then submitted) until it is reserved or the stop flag is set.
C20_PendingUntilReserved ==
    [][\A t \in Tasks :
          (Pending(t) /\ ~Pending(t)') =>
              (schedule'[t].running \/ stop_event')]_vars

\* C20, dispatch, progress: no task stays selected and unreserved for ever.
C20_DueIsDispatched ==
    \A t \in 1..(Len(DOMAINS) * Len(SCANS)) : []<>(t \in Tasks /\ ~Pending(t))

\* C20, return: again and again a task is not running, with a finite next,
\* unless the stop flag is set: a reserved task does not stay reserved.
C20_ReservedReturns ==
    \A t \in 1..(Len(DOMAINS) * Len(SCANS)) :
        []<>(t \in Tasks /\
             ((~schedule[t].running /\ schedule[t].next # Inf) \/ stop_event))

\* C20: absent a stop, with fair scheduling and jobs that return, every due
\* task is dispatched and every dispatched task becomes due again, with more
\* tasks than workers too.
C20_NoStarvation ==
    /\ C20_PendingUntilReserved
    /\ C20_DueIsDispatched
    /\ C20_ReservedReturns

\* with one worker for two tasks, a task is submitted again, selected with the
\* next that on_done gave it, while the other task still waits for the worker
C20_Witness ==
    /\ max_workers < Cardinality(Tasks)
    /\ ~stop_event
    /\ \E t, u \in Tasks :
        /\ InSeq(t, order)
        /\ key_at[t] > 0
        /\ schedule[t].running
        /\ u # t
        /\ future[u] # "none"

====
